---- MODULE Spec2Model ----
(***************************************************************************)
(* Model of metrics-exporter-tracing (src/lib.rs): TracingExporter::new,   *)
(* turn, run and async_run, with the three parties that can drive one      *)
(* exporter (a direct caller of turn, the thread blocked in run, the task  *)
(* polling async_run), a discrete clock, and the log the events go to.     *)
(*                                                                         *)
(* Time is discrete and ideal: thread::sleep and Interval::tick complete   *)
(* at the instant their deadline is reached, never later.  The only thing  *)
(* that takes time besides waiting is the work of a turn.                  *)
(***************************************************************************)
EXTENDS Integers, Sequences, FiniteSets, TLC

\* ------------------------------------------------------------------ bounds
MaxInterval == 2   \* intervals are drawn from 0..MaxInterval clock units
MaxTurn     == 2   \* a turn's work takes 0..MaxTurn clock units
MaxEvents   == 3   \* turns started in one behaviour

\* ---------------------------------------------------------------- constants
Levels == {"TRACE", "DEBUG", "INFO", "WARN", "ERROR"}

Party == {"direct", "run", "async"}

X1   == <<[k |-> "x", v |-> 1]>>
A1B2 == <<[k |-> "a", v |-> 1], [k |-> "b", v |-> 2]>>

\* What the controller may push into the observer during one observe().
Snapshots == {<<>>, X1, A1B2}

\* How long the work of a turn may take.
AnyWork   == 0..MaxTurn
QuickWork == {0}

VARIABLES
    borrow,     \* who holds the exporter: "unbuilt", "free", "direct", "run", "moved", "dropped"
    interval,   \* new()'s interval argument, then self.interval
    level,      \* new()'s level argument
    L,          \* the const generic parameter L of the exporter's type
    clears,     \* does the renderer's drain() clear what it accumulated
    builds,     \* number of calls of builder.build()
    observer,   \* self.observer: the entries the renderer has accumulated
    pc,         \* position of each party
    output,     \* turn()'s local `output`, per party
    log,        \* the events emitted so far
    drains,     \* the strings drain() has returned so far
    supplied,   \* the snapshots the controller has supplied so far, one per observe()
    turns,      \* number of turn() calls that have returned
    now,        \* the clock
    wake,       \* instant at which the current thread::sleep ends
    deadline,   \* the Interval's next deadline
    busyUntil,  \* instant at which the work of the turn in progress is done
    loopStart,  \* instant at which the loop body of run()/async_run() was entered
    loopTurns,  \* turns started by the loop
    lastStart,  \* instant at which the latest turn started
    lastEnd,    \* instant at which the latest turn returned
    minDur,     \* shortest work time among the loop's turns so far
    maxDur,     \* longest work time among the loop's turns so far
    immediate   \* consecutive ticks, after the first, that completed without waiting

vars == <<borrow, interval, level, L, clears, builds, observer, pc, output, log,
          drains, supplied, turns, now, wake, deadline, busyUntil, loopStart,
          loopTurns, lastStart, lastEnd, minDur, maxDur, immediate>>

config == <<interval, level, L, clears>>
timing == <<wake, deadline, loopStart, loopTurns, lastStart, lastEnd, minDur, maxDur, immediate>>
record == <<log, drains, supplied, turns>>

\* ------------------------------------------------------------ the renderer
RECURSIVE Render(_)
\* Drain<String>::drain's text for the accumulated entries: "a=1, b=2".
Render(acc) ==
    IF acc = <<>> THEN ""
    ELSE IF Len(acc) = 1 THEN acc[1].k \o "=" \o ToString(acc[1].v)
    ELSE acc[1].k \o "=" \o ToString(acc[1].v) \o ", " \o Render(Tail(acc))

\* Observe::observe: the controller pushes a snapshot into the observer.
ControllerObserve(acc, snap) == acc \o snap

\* Drain<String>::drain: the text, and what the renderer keeps afterwards.
RendererDrain(acc, c) == [text |-> Render(acc), rest |-> IF c THEN <<>> ELSE acc]

\* Builder::build: a fresh renderer has accumulated nothing.
BuilderBuild == <<>>

InTurn(p) == pc[p] \in {"observe", "drain", "emit"}

Min(a, b) == IF a < b THEN a ELSE b
Max(a, b) == IF a > b THEN a ELSE b

\* ------------------------------------------------------------------- Init
\* Before new() is called: its arguments and the type parameter are chosen.
Init ==
    /\ borrow = "unbuilt"
    /\ interval \in 0..MaxInterval
    /\ level \in Levels
    /\ L \in Levels
    /\ clears \in BOOLEAN
    /\ builds = 0
    /\ observer = <<>>
    /\ pc = [p \in Party |-> "idle"]
    /\ output = [p \in Party |-> ""]
    /\ log = <<>>
    /\ drains = <<>>
    /\ supplied = <<>>
    /\ turns = 0
    /\ now = 0
    /\ wake = 0
    /\ deadline = 0
    /\ busyUntil = 0
    /\ loopStart = 0
    /\ loopTurns = 0
    /\ lastStart = 0
    /\ lastEnd = 0
    /\ minDur = MaxTurn + 1
    /\ maxDur = 0
    /\ immediate = 0

\* ------------------------------------------------------------------- new
\* TracingExporter::new: stores the arguments, builds the observer; it has
\* no failure path and looks at none of its arguments.
New ==
    /\ borrow = "unbuilt"
    /\ borrow' = "free"
    /\ observer' = BuilderBuild
    /\ builds' = builds + 1
    /\ UNCHANGED <<config, pc, output, record, now, busyUntil, timing>>

\* ------------------------------------------------------------------ turn
\* A turn() that starts with the drain and never calls observe.
DirectTurnDrainFirst ==
    /\ borrow = "free"
    /\ pc["direct"] = "idle"
    /\ Len(supplied) < MaxEvents
    /\ borrow' = "direct"
    /\ pc' = [pc EXCEPT !["direct"] = "drain"]
    /\ lastStart' = now
    /\ UNCHANGED <<config, builds, observer, output, record, now, busyUntil,
                   wake, deadline, loopStart, loopTurns, lastEnd, minDur, maxDur, immediate>>

\* The caller of turn() enters it: `&mut self` needs the exporter unborrowed.
DirectTurn ==
    /\ borrow = "free"
    /\ pc["direct"] = "idle"
    /\ Len(supplied) < MaxEvents
    /\ borrow' = "direct"
    /\ pc' = [pc EXCEPT !["direct"] = "observe"]
    /\ lastStart' = now
    /\ UNCHANGED <<config, builds, observer, output, record, now, busyUntil,
                   wake, deadline, loopStart, loopTurns, lastEnd, minDur, maxDur, immediate>>

\* A turn that calls observe twice.
TurnObserveTwice(p, S, D) ==
    /\ pc[p] = "observe"
    /\ \E snap \in S, d \in D :
          /\ observer' = ControllerObserve(ControllerObserve(observer, snap), snap)
          /\ supplied' = Append(Append(supplied, snap), snap)
          /\ busyUntil' = now + d
          /\ minDur' = IF p = "direct" THEN minDur ELSE Min(minDur, d)
          /\ maxDur' = IF p = "direct" THEN maxDur ELSE Max(maxDur, d)
    /\ pc' = [pc EXCEPT ![p] = "drain"]
    /\ UNCHANGED <<borrow, config, builds, output, log, drains, turns, now,
                   wake, deadline, loopStart, loopTurns, lastStart, lastEnd, immediate>>

\* self.controller.observe(&mut self.observer): the controller supplies one
\* of the snapshots of S and the work takes one of the durations of D.
TurnObserve(p, S, D) ==
    /\ pc[p] = "observe"
    /\ \E snap \in S, d \in D :
          /\ observer' = ControllerObserve(observer, snap)
          /\ supplied' = Append(supplied, snap)
          /\ busyUntil' = now + d
          /\ minDur' = IF p = "direct" THEN minDur ELSE Min(minDur, d)
          /\ maxDur' = IF p = "direct" THEN maxDur ELSE Max(maxDur, d)
    /\ pc' = [pc EXCEPT ![p] = "drain"]
    /\ UNCHANGED <<borrow, config, builds, output, log, drains, turns, now,
                   wake, deadline, loopStart, loopTurns, lastStart, lastEnd, immediate>>

\* A turn that drains a copy of the observer and leaves the observer as it was.
TurnDrainCopy(p) ==
    /\ pc[p] = "drain"
    /\ now >= busyUntil
    /\ output' = [output EXCEPT ![p] = RendererDrain(observer, clears).text]
    /\ drains' = Append(drains, RendererDrain(observer, clears).text)
    /\ pc' = [pc EXCEPT ![p] = "emit"]
    /\ UNCHANGED <<borrow, config, builds, observer, log, supplied, turns, now, busyUntil, timing>>

\* let output = self.observer.drain(), once the observe work is done.
TurnDrain(p) ==
    /\ pc[p] = "drain"
    /\ now >= busyUntil
    /\ output' = [output EXCEPT ![p] = RendererDrain(observer, clears).text]
    /\ observer' = RendererDrain(observer, clears).rest
    /\ drains' = Append(drains, RendererDrain(observer, clears).text)
    /\ pc' = [pc EXCEPT ![p] = "emit"]
    /\ UNCHANGED <<borrow, config, builds, log, supplied, turns, now, busyUntil, timing>>

\* A turn that emits its output twice.
TurnEmitTwice(p) ==
    /\ pc[p] = "emit"
    /\ log' = log \o << [level |-> L, payload |-> output[p], by |-> p],
                        [level |-> L, payload |-> output[p], by |-> p] >>
    /\ turns' = turns + 1
    /\ lastEnd' = now
    /\ pc' = [pc EXCEPT ![p] = CASE p = "direct" -> "idle"
                                 [] p = "run"    -> "sleep"
                                 [] p = "async"  -> "tick"]
    /\ borrow' = IF p = "direct" THEN "free" ELSE borrow
    /\ wake' = IF p = "run" THEN now + interval ELSE wake
    /\ UNCHANGED <<config, builds, observer, output, drains, supplied, now, busyUntil,
                   deadline, loopStart, loopTurns, lastStart, minDur, maxDur, immediate>>

\* A run() that sleeps until one interval after the START of the turn.
TurnEmitFixedRate(p) ==
    /\ pc[p] = "emit"
    /\ log' = Append(log, [level |-> L, payload |-> output[p], by |-> p])
    /\ turns' = turns + 1
    /\ lastEnd' = now
    /\ pc' = [pc EXCEPT ![p] = CASE p = "direct" -> "idle"
                                 [] p = "run"    -> "sleep"
                                 [] p = "async"  -> "tick"]
    /\ borrow' = IF p = "direct" THEN "free" ELSE borrow
    /\ wake' = IF p = "run" THEN lastStart + interval ELSE wake
    /\ UNCHANGED <<config, builds, observer, output, drains, supplied, now, busyUntil,
                   deadline, loopStart, loopTurns, lastStart, minDur, maxDur, immediate>>

\* tracing::event!(L, "{}", output), and turn() returns to its caller:
\* the direct caller gets the exporter back, run() goes to sleep again,
\* async_run() awaits the next tick.
TurnEmit(p) ==
    /\ pc[p] = "emit"
    /\ log' = Append(log, [level |-> L, payload |-> output[p], by |-> p])
    /\ turns' = turns + 1
    /\ lastEnd' = now
    /\ pc' = [pc EXCEPT ![p] = CASE p = "direct" -> "idle"
                                 [] p = "run"    -> "sleep"
                                 [] p = "async"  -> "tick"]
    /\ borrow' = IF p = "direct" THEN "free" ELSE borrow
    /\ wake' = IF p = "run" THEN now + interval ELSE wake
    /\ UNCHANGED <<config, builds, observer, output, drains, supplied, now, busyUntil,
                   deadline, loopStart, loopTurns, lastStart, minDur, maxDur, immediate>>

\* ------------------------------------------------------- failing collaborators
\* self.controller.observe panics: nothing in turn(), run() or async_run()
\* catches it, so it unwinds through the caller, which goes down with the
\* exporter it holds.  No drain, no event.
TurnObserveFails(p) ==
    /\ pc[p] = "observe"
    /\ pc' = [pc EXCEPT ![p] = "failed"]
    /\ borrow' = "dropped"
    /\ UNCHANGED <<config, builds, observer, output, record, now, busyUntil, timing>>

\* A turn that catches the panic of drain() and returns as if it had emitted.
TurnDrainFailsCaught(p) ==
    /\ pc[p] = "drain"
    /\ now >= busyUntil
    /\ turns' = turns + 1
    /\ lastEnd' = now
    /\ pc' = [pc EXCEPT ![p] = CASE p = "direct" -> "idle"
                                 [] p = "run"    -> "sleep"
                                 [] p = "async"  -> "tick"]
    /\ borrow' = IF p = "direct" THEN "free" ELSE borrow
    /\ wake' = IF p = "run" THEN now + interval ELSE wake
    /\ UNCHANGED <<config, builds, observer, output, log, drains, supplied, now, busyUntil,
                   deadline, loopStart, loopTurns, lastStart, minDur, maxDur, immediate>>

\* self.observer.drain() panics, once the observe work is done: it unwinds
\* the same way, before the event is emitted.
TurnDrainFails(p) ==
    /\ pc[p] = "drain"
    /\ now >= busyUntil
    /\ pc' = [pc EXCEPT ![p] = "failed"]
    /\ borrow' = "dropped"
    /\ UNCHANGED <<config, builds, observer, output, record, now, busyUntil, timing>>

\* ------------------------------------------------------------------- run
\* A loop that turns first and sleeps afterwards.
RunStartTurnFirst ==
    /\ borrow = "free"
    /\ pc["run"] = "idle"
    /\ Len(supplied) < MaxEvents
    /\ borrow' = "run"
    /\ pc' = [pc EXCEPT !["run"] = "observe"]
    /\ loopStart' = now
    /\ loopTurns' = loopTurns + 1
    /\ lastStart' = now
    /\ UNCHANGED <<config, builds, observer, output, record, now, busyUntil,
                   wake, deadline, lastEnd, minDur, maxDur, immediate>>

\* run(&mut self) is entered: the first thing the loop does is sleep.
RunStart ==
    /\ borrow = "free"
    /\ pc["run"] = "idle"
    /\ borrow' = "run"
    /\ pc' = [pc EXCEPT !["run"] = "sleep"]
    /\ loopStart' = now
    /\ wake' = now + interval
    /\ UNCHANGED <<config, builds, observer, output, record, now, busyUntil,
                   deadline, loopTurns, lastStart, lastEnd, minDur, maxDur, immediate>>

\* A loop that builds a new observer before each turn.
RunWakeRebuild ==
    /\ pc["run"] = "sleep"
    /\ now >= wake
    /\ Len(supplied) < MaxEvents
    /\ pc' = [pc EXCEPT !["run"] = "observe"]
    /\ loopTurns' = loopTurns + 1
    /\ lastStart' = now
    /\ builds' = builds + 1
    /\ observer' = BuilderBuild
    /\ UNCHANGED <<borrow, config, output, record, now, busyUntil,
                   wake, deadline, loopStart, lastEnd, minDur, maxDur, immediate>>

\* thread::sleep(self.interval) returns; self.turn() is called.
RunWake ==
    /\ pc["run"] = "sleep"
    /\ now >= wake
    /\ Len(supplied) < MaxEvents
    /\ pc' = [pc EXCEPT !["run"] = "observe"]
    /\ loopTurns' = loopTurns + 1
    /\ lastStart' = now
    /\ UNCHANGED <<borrow, config, builds, observer, output, record, now, busyUntil,
                   wake, deadline, loopStart, lastEnd, minDur, maxDur, immediate>>

\* ------------------------------------------------------------- async_run
\* An async_run that borrows the exporter instead of taking it by value.
AsyncRunByRef ==
    /\ borrow = "free"
    /\ pc["async"] = "idle"
    /\ pc' = [pc EXCEPT !["async"] = "created"]
    /\ UNCHANGED <<borrow, config, builds, observer, output, record, now, busyUntil, timing>>

\* async_run(mut self) is called: the exporter moves into the future.
AsyncRun ==
    /\ borrow = "free"
    /\ pc["async"] = "idle"
    /\ borrow' = "moved"
    /\ pc' = [pc EXCEPT !["async"] = "created"]
    /\ UNCHANGED <<config, builds, observer, output, record, now, busyUntil, timing>>

\* First poll: time::interval(self.interval) panics on a zero period;
\* otherwise the Interval's first deadline is the instant of its creation.
AsyncPoll ==
    /\ pc["async"] = "created"
    /\ IF interval = 0
         THEN /\ pc' = [pc EXCEPT !["async"] = "panicked"]
              /\ borrow' = "dropped"
              /\ UNCHANGED <<deadline, loopStart>>
         ELSE /\ pc' = [pc EXCEPT !["async"] = "tick"]
              /\ deadline' = now
              /\ loopStart' = now
              /\ UNCHANGED borrow
    /\ UNCHANGED <<config, builds, observer, output, record, now, busyUntil,
                   wake, loopTurns, lastStart, lastEnd, minDur, maxDur, immediate>>

\* A plain delay of one period, counted from the instant the await began.
AsyncWaitAfterTurn(dl, end, i) == end + i

\* The instant at which interval.tick().await completes: the Interval's
\* deadline dl, whatever the instant `end` at which the await began.
AsyncWaitUntil(dl, end, i) == dl

\* A timer that skips the deadlines already past at instant t.
NextDeadlineSkip(dl, t, i) == IF t < dl + i THEN dl + i ELSE dl + (((t - dl) \div i) + 1) * i

\* The deadline after the one that just completed: one period later,
\* whether or not that instant is already past (missed ticks burst).
NextDeadline(dl, t, i) == dl + i

\* A loop that stores the timer's next deadline in self.interval.
AsyncTickStoresDeadline ==
    /\ pc["async"] = "tick"
    /\ now >= AsyncWaitUntil(deadline, lastEnd, interval)
    /\ Len(supplied) < MaxEvents
    /\ pc' = [pc EXCEPT !["async"] = "observe"]
    /\ deadline' = NextDeadline(deadline, now, interval)
    /\ interval' = NextDeadline(deadline, now, interval)
    /\ loopTurns' = loopTurns + 1
    /\ lastStart' = now
    /\ immediate' = IF loopTurns > 0 /\ lastEnd >= AsyncWaitUntil(deadline, lastEnd, interval)
                      THEN immediate + 1 ELSE 0
    /\ UNCHANGED <<borrow, level, L, clears, builds, observer, output, record, now, busyUntil,
                   wake, loopStart, lastEnd, minDur, maxDur>>

\* interval.tick().await completes; self.turn() is called.
AsyncTick ==
    /\ pc["async"] = "tick"
    /\ now >= AsyncWaitUntil(deadline, lastEnd, interval)
    /\ Len(supplied) < MaxEvents
    /\ pc' = [pc EXCEPT !["async"] = "observe"]
    /\ deadline' = NextDeadline(deadline, now, interval)
    /\ loopTurns' = loopTurns + 1
    /\ lastStart' = now
    /\ immediate' = IF loopTurns > 0 /\ lastEnd >= AsyncWaitUntil(deadline, lastEnd, interval)
                      THEN immediate + 1 ELSE 0
    /\ UNCHANGED <<borrow, config, builds, observer, output, record, now, busyUntil,
                   wake, loopStart, lastEnd, minDur, maxDur>>

\* A drop that flushes: one last event for what the observer still holds.
CancelFlush ==
    /\ pc["async"] \in {"created", "tick"}
    /\ pc' = [pc EXCEPT !["async"] = "cancelled"]
    /\ borrow' = "dropped"
    /\ log' = Append(log, [level |-> L, payload |-> Render(observer), by |-> "async"])
    /\ UNCHANGED <<config, builds, observer, output, drains, supplied, turns, now,
                   busyUntil, timing>>

\* The future is dropped while it is not being polled: before its first
\* poll or suspended in tick().await.  Dropping it drops the exporter.
Cancel ==
    /\ pc["async"] \in {"created", "tick"}
    /\ pc' = [pc EXCEPT !["async"] = "cancelled"]
    /\ borrow' = "dropped"
    /\ UNCHANGED <<config, builds, observer, output, record, now, busyUntil, timing>>

\* ------------------------------------------------------------------ clock
\* Somebody is waiting for an instant that has not come yet.
Waiting ==
    \/ pc["run"] = "sleep" /\ now < wake
    \/ pc["async"] = "tick" /\ now < AsyncWaitUntil(deadline, lastEnd, interval)
    \/ \E p \in Party : pc[p] = "drain" /\ now < busyUntil

TimePasses ==
    /\ Waiting
    /\ now' = now + 1
    /\ UNCHANGED <<borrow, config, builds, observer, pc, output, record, busyUntil, timing>>

Observe(S, D) == \E p \in Party : TurnObserve(p, S, D)
Drain == \E p \in Party : TurnDrain(p)
Emit == \E p \in Party : TurnEmit(p)

\* Every configuration and every snapshot, with turns whose work takes no
\* time.
Next ==
    \/ New
    \/ DirectTurn
    \/ Observe(Snapshots, QuickWork)
    \/ Drain
    \/ Emit
    \/ RunStart
    \/ RunWake
    \/ AsyncRun
    \/ AsyncPoll
    \/ AsyncTick
    \/ Cancel
    \/ TimePasses

Spec == Init /\ [][Next]_vars

\* The timing of the loops: one level, one snapshot, every interval, both
\* kinds of renderer and every work time.  The code never branches on the
\* level or on the snapshot.
InitTimed ==
    /\ Init
    /\ level = "INFO"
    /\ L = "INFO"

NextTimed ==
    \/ New
    \/ DirectTurn
    \/ Observe({X1}, AnyWork)
    \/ Drain
    \/ Emit
    \/ RunStart
    \/ RunWake
    \/ AsyncRun
    \/ AsyncPoll
    \/ AsyncTick
    \/ Cancel
    \/ TimePasses

SpecTimed == InitTimed /\ [][NextTimed]_vars

ObserveFails == \E p \in Party : TurnObserveFails(p)
DrainFails == \E p \in Party : TurnDrainFails(p)

\* The timed loops with collaborators that may fail.
NextFail ==
    \/ NextTimed
    \/ ObserveFails
    \/ DrainFails

SpecFail == InitTimed /\ [][NextFail]_vars

TypeOK ==
    /\ borrow \in {"unbuilt", "free", "direct", "run", "moved", "dropped"}
    /\ interval \in 0..MaxInterval
    /\ builds \in 0..1
    /\ Len(log) <= MaxEvents

\* ------------------------------------------------------------- properties
EventsBy(p) == Cardinality({i \in 1..Len(log) : log[i].by = p})

RunLoop == pc["run"] # "idle"
AsyncLoop == pc["async"] \in {"tick", "observe", "drain", "emit"}
Elapsed == now - loopStart

\* C1: every turn() that has returned has emitted exactly one event, and the
\* payload of the i-th event is the string the i-th drain() returned; a turn
\* that has drained and not yet emitted is the only drain without an event.
C1_TurnEmitsItsDrain ==
    /\ Len(log) = turns
    /\ Len(drains) = Len(log) + Cardinality({p \in Party : pc[p] = "emit"})
    /\ \A i \in 1..Len(log) : log[i].payload = drains[i]

C1_Witness ==
    /\ Len(log) >= 2
    /\ supplied[1] = <<>> /\ log[1].payload = ""
    /\ supplied[2] = A1B2 /\ log[2].payload = "a=1, b=2"
    /\ clears

\* C2 as the spec states it: whenever time is passing in run() with a
\* positive interval I, the events emitted so far number exactly
\* (time since run() started) div I.
C2_Orig ==
    (RunLoop /\ interval > 0 /\ Waiting) => EventsBy("run") = Elapsed \div interval

\* C2 amended: run() with a positive interval I has emitted at most
\* (elapsed div I) events, none before the first interval has elapsed, and
\* exactly (elapsed div I) whenever time is passing and no turn of the loop
\* has taken any time.
C2_AtMostOnePerInterval ==
    (RunLoop /\ interval > 0) =>
        /\ EventsBy("run") <= Elapsed \div interval
        /\ (Elapsed < interval => EventsBy("run") = 0)
        /\ (Waiting /\ maxDur = 0 => EventsBy("run") = Elapsed \div interval)

C2_Witness ==
    /\ RunLoop
    /\ interval = 2
    /\ maxDur = 0
    /\ Waiting
    /\ Elapsed = 2 * interval + 1
    /\ EventsBy("run") = 2

\* C3: async_run() keeps run()'s sleep-then-turn ordering: its first turn
\* does not start until one full interval after the loop was entered.
C3_Orig ==
    (AsyncLoop /\ loopTurns >= 1) => lastStart >= loopStart + loopTurns * interval

\* C4: with a zero interval no exporter is produced and no loop starts from
\* it, nor does a loop fail later at its first step.
C4_Orig ==
    (interval = 0) => (borrow = "unbuilt" /\ \A p \in Party : pc[p] = "idle")

\* C5: every event is at the level that was passed to the constructor.
C5_Orig ==
    \A i \in 1..Len(log) : log[i].level = level

\* C6: the step that cancels async_run(), and every step after it, leaves
\* the observes, the drains and the events as they were, with no turn in
\* progress and as many events as observes.
C6_CancelRunsNoTurn ==
    [][pc'["async"] = "cancelled" =>
          /\ supplied' = supplied
          /\ drains' = drains
          /\ log' = log
          /\ Len(supplied') = Len(log')
          /\ Len(drains') = Len(log')
          /\ \A p \in Party : pc'[p] \notin {"observe", "drain", "emit"}]_vars

C6_Witness ==
    /\ pc["async"] = "cancelled"
    /\ EventsBy("async") >= 1
    /\ now < deadline

\* C7: with a renderer whose drain() clears, the payload of every event is
\* the rendering of what the controller supplied in that turn alone.
C7_NoRetention ==
    clears => \A i \in 1..Len(log) : log[i].payload = Render(supplied[i])

C7_Witness ==
    /\ clears
    /\ Len(log) >= 2
    /\ supplied[1] = X1 /\ supplied[2] = X1
    /\ log[1].payload = "x=1" /\ log[2].payload = "x=1"

\* C8 as the spec states it: missed ticks are coalesced, so when a tick has
\* completed and its turn starts, the next deadline lies in the future.
C8_Orig ==
    (pc["async"] = "observe") => deadline > now

\* C8 amended: missed ticks are queued, none is skipped: the deadline of the
\* tick after the k-th is start + k*I, past or not, so that after a slow turn
\* the ticks complete at once and turns run back to back until the deadline
\* is ahead of the clock again.
C8_MissedTicksQueued ==
    AsyncLoop => deadline = loopStart + loopTurns * interval

C8_Witness ==
    /\ pc["async"] = "observe"
    /\ immediate >= 2
    /\ lastStart = lastEnd
    /\ deadline <= now

\* C9: in async_run(), as long as every turn took less than the interval,
\* the k-th turn started exactly at start + (k-1)*I.
C9_NoDrift ==
    (AsyncLoop /\ loopTurns >= 1 /\ maxDur < interval) =>
        lastStart = loopStart + (loopTurns - 1) * interval

C9_Witness ==
    /\ pc["async"] = "tick"
    /\ loopTurns = 3
    /\ minDur >= 1
    /\ maxDur < interval
    /\ lastStart = loopStart + 2 * interval

\* C10: at most one party is inside turn(), and once async_run() has been
\* called neither the direct caller nor run() is anywhere but idle.
C10_OneTurnInFlight ==
    /\ Cardinality({p \in Party : InTurn(p)}) <= 1
    /\ (pc["async"] # "idle" => pc["direct"] = "idle" /\ pc["run"] = "idle")
    /\ (pc["run"] # "idle" => pc["direct"] = "idle" /\ pc["async"] = "idle")

C10_Witness ==
    /\ InTurn("async")
    /\ borrow = "moved"
    /\ EventsBy("direct") >= 1
    /\ EventsBy("async") >= 1

LoopParty == {"run", "async"}
LoopEvents == EventsBy("run") + EventsBy("async")
Failed(p) == pc[p] = "failed"

\* C11: a turn in which observe or drain failed emits no event and does not
\* return: the events are those of the turns that returned, the failed turn
\* is the last one its loop started, and after the failure its caller is
\* down, the exporter gone and no turn in progress.
C11_FailurePropagates ==
    /\ Len(log) = turns
    /\ loopTurns = LoopEvents +
          (IF \E p \in LoopParty : InTurn(p) \/ Failed(p) THEN 1 ELSE 0)
    /\ ((\E p \in Party : Failed(p)) =>
            /\ borrow = "dropped"
            /\ \A q \in Party : ~InTurn(q) /\ pc[q] \notin {"sleep", "tick"})

C11_Witness ==
    /\ Failed("run")
    /\ EventsBy("run") = 1
    /\ loopTurns = 2
    /\ Len(drains) = 1
    /\ Len(supplied) = 2

\* C12: a loop that has been started, has not been cancelled and has met no
\* failing collaborator is still running: it has not ended by itself.
C12_Orig ==
    /\ (pc["run"] \notin {"idle", "failed"} =>
            pc["run"] \in {"sleep", "observe", "drain", "emit"})
    /\ (pc["async"] \notin {"idle", "failed", "cancelled"} =>
            pc["async"] \in {"created", "tick", "observe", "drain", "emit"})

Observes == Len(supplied)
Drains == Len(drains)
Events == Len(log)

\* C13: inside a turn the steps come in one order, each once: before the
\* observe nothing of this turn has happened, between observe and drain
\* there is one observe more than drains and events, between drain and emit
\* one observe and one drain more than events; and a turn of the task is
\* never left for anything but its next step or its return to the tick.
C13_ObserveDrainEmit ==
    /\ [](\A p \in Party :
            /\ (pc[p] = "observe" => Observes = Events /\ Drains = Events)
            /\ (pc[p] = "drain" => Observes = Events + 1 /\ Drains = Events)
            /\ (pc[p] = "emit" => Observes = Events + 1 /\ Drains = Events + 1))
    /\ [][\A p \in Party :
            /\ (pc[p] = "observe" => pc'[p] \in {"observe", "drain"})
            /\ (pc[p] = "drain" => pc'[p] \in {"drain", "emit"})
            /\ (pc[p] = "emit" /\ pc'[p] # "emit" => Len(log') = Events + 1)]_vars

C13_Witness ==
    /\ pc["async"] = "emit"
    /\ Events = 2
    /\ Observes = 3
    /\ Drains = 3

\* C14: build() has been called once as soon as the exporter exists and
\* never again, whatever turn(), run() and async_run() have done since; the
\* step that constructs the exporter emits nothing, observes nothing and
\* drains nothing.
C14_BuiltOnce ==
    /\ [](builds = IF borrow = "unbuilt" THEN 0 ELSE 1)
    /\ [][borrow = "unbuilt" =>
            /\ log' = log /\ log = <<>>
            /\ supplied' = supplied /\ supplied = <<>>
            /\ drains' = drains /\ drains = <<>>]_vars

C14_Witness ==
    /\ builds = 1
    /\ Events = 3
    /\ EventsBy("direct") >= 1
    /\ EventsBy("run") >= 1

\* C15: no step of turn(), run() or async_run() changes the interval, the
\* level given to the constructor or the level parameter of the type.
C15_ConfigImmutable ==
    [][borrow # "unbuilt" => interval' = interval /\ level' = level /\ L' = L]_vars

C15_Witness ==
    /\ pc["async"] = "tick"
    /\ loopTurns = 3
    /\ interval = 2
    /\ deadline = loopStart + 3 * interval
    /\ level = "WARN"
    /\ \A i \in 1..Len(log) : log[i].level = L

LoopActive == \E p \in LoopParty : pc[p] # "idle"

\* C16: once a loop has been started, events <= drains <= observes <=
\* events + 1, and while the loop is between turns (sleeping, or awaiting
\* the tick) the three counts are equal.
C16_CountersInStep ==
    LoopActive =>
        /\ Events <= Drains
        /\ Drains <= Observes
        /\ Observes <= Events + 1
        /\ (pc["run"] = "sleep" \/ pc["async"] = "tick" =>
                Observes = Events /\ Drains = Events)

C16_Witness ==
    /\ pc["run"] = "sleep"
    /\ Waiting
    /\ EventsBy("run") = 2
    /\ Observes = Events
    /\ Drains = Events

\* C17: in run(), from its second turn on, a turn starts at least one
\* interval after the previous turn returned, so its event comes at least
\* one interval after the previous event, whatever the turns took.
C17_FullSleepBetweenTurns ==
    (InTurn("run") /\ loopTurns >= 2) =>
        /\ lastStart >= lastEnd + interval
        /\ now >= lastEnd + interval

C17_Witness ==
    /\ pc["run"] = "emit"
    /\ loopTurns = 3
    /\ minDur >= 1
    /\ interval = 2
    /\ lastStart = lastEnd + interval
    /\ now > lastStart

====
